---- MODULE Spec2Model ----
(***************************************************************************)
(* A model of features/algorithms-python/test_python.py: the two numeric   *)
(* functions fibonacci and is_prime, the tally-based runner run_tests and  *)
(* the __main__ entry point that turns the runner's result into the exit   *)
(* status of the process.                                                  *)
(*                                                                         *)
(* Three state machines share the module:                                  *)
(*   Spec / LiveSpec  the script: __main__ -> run_tests -> sys.exit        *)
(*   SpecFn           fibonacci and is_prime applied to one argument       *)
(*   SpecFib          the call stack of one fibonacci(n) evaluation        *)
(***************************************************************************)
EXTENDS Integers, Sequences, FiniteSets, TLC

VARIABLES
    pc,            \* position of the script: "main", "loop", "returned", "exited"
    expected,      \* the expected-value column of the table literal (lines 31-38)
    tests,         \* the list built at lines 30-39
    idx,           \* number of entries the for loop of line 41 has consumed
    tests_passed,  \* line 24
    tests_failed,  \* line 25
    out,           \* the lines printed so far
    success,       \* line 59
    exit_code,     \* the status handed to sys.exit, line 60
    arg,           \* SpecFn: the argument given to the numeric functions
    fib_out,       \* SpecFn: what fibonacci(arg) returned
    prime_out,     \* SpecFn: what is_prime(arg) returned
    fn,            \* SpecFib: the argument of the outermost fibonacci call
    stack,         \* SpecFib: the fibonacci frames, outermost first
    fret,          \* SpecFib: the value a frame has just returned to its caller
    fstatus        \* SpecFib: "running", "returning", "returned", "raised"

runVars == <<pc, expected, tests, idx, tests_passed, tests_failed, out, success, exit_code>>
fnVars == <<arg, fib_out, prime_out>>
fibVars == <<fn, stack, fret, fstatus>>
vars == <<pc, expected, tests, idx, tests_passed, tests_failed, out, success, exit_code,
          arg, fib_out, prime_out, fn, stack, fret, fstatus>>

----------------------------------------------------------------------------
(* Bounds of the model *)

\* largest argument fibonacci is applied to in SpecFn and SpecFib
FibMax == 12
\* largest argument is_prime is applied to in SpecFn
PrimeMax == 50
\* the most negative argument is -NegMax
NegMax == 6
\* a corrupted expected value is an integer in -1..MaxCorrupt, or a boolean
MaxCorrupt == 14

----------------------------------------------------------------------------
(* Python values: int, bool and None.  bool is a subclass of int, so a     *)
(* bool carries its integer value (False is 0, True is 1).                 *)

PyInt(n) == [t |-> "int", v |-> n]
PyBool(b) == [t |-> "bool", v |-> IF b THEN 1 ELSE 0]
PyNone == [t |-> "NoneType", v |-> 0]

\* a slip: the operands compared by truth value
PyEqTruthy(a, b) == (a.v # 0) = (b.v # 0)

\* actual == expected of line 42, on int and bool operands: numeric comparison
PyEq(a, b) == a.v = b.v

Digit(d) == CASE d = 0 -> "0" [] d = 1 -> "1" [] d = 2 -> "2" [] d = 3 -> "3"
              [] d = 4 -> "4" [] d = 5 -> "5" [] d = 6 -> "6" [] d = 7 -> "7"
              [] d = 8 -> "8" [] d = 9 -> "9"

RECURSIVE DecStr(_)
DecStr(n) == IF n < 0 THEN "-" \o DecStr(-n)
             ELSE IF n < 10 THEN Digit(n)
             ELSE DecStr(n \div 10) \o Digit(n % 10)

\* the text an f-string puts for {value}
PyStr(a) == IF a.t = "bool" THEN (IF a.v = 1 THEN "True" ELSE "False")
            ELSE IF a.t = "int" THEN DecStr(a.v)
            ELSE "None"

----------------------------------------------------------------------------
(* The numeric functions *)

\* a slip: the base case n <= 1 answering 1
RECURSIVE fibonacciBaseOne(_)
fibonacciBaseOne(n) == IF n <= 1 THEN 1
                       ELSE fibonacciBaseOne(n - 1) + fibonacciBaseOne(n - 2)

RECURSIVE fibonacci(_)
fibonacci(n) == IF n <= 0 THEN 0
                ELSE IF n = 1 THEN 1
                ELSE fibonacci(n - 1) + fibonacci(n - 2)

\* int(n**0.5) for n >= 2: the float square root truncated; exact for the n modelled
IntSqrt(n) == CHOOSE k \in 0..n : k * k <= n /\ (k + 1) * (k + 1) > n

\* the body of the for loop of lines 17-19, from i up to stop - 1
RECURSIVE PrimeLoop(_, _, _)
PrimeLoop(n, i, stop) == IF i >= stop THEN TRUE
                         ELSE IF n % i = 0 THEN FALSE
                         ELSE PrimeLoop(n, i + 1, stop)

\* a slip: range(2, int(n**0.5)), which leaves the square root out
PrimeStopExclusive(n) == IntSqrt(n)

\* range(2, int(n**0.5) + 1): the exclusive end of the loop
PrimeStop(n) == IntSqrt(n) + 1

\* a slip: n <= 2 in place of n < 2
is_primeTwoExcluded(n) == IF n <= 2 THEN FALSE
                          ELSE PrimeLoop(n, 2, IntSqrt(n) + 1)

is_prime(n) == IF n < 2 THEN FALSE
               ELSE PrimeLoop(n, 2, PrimeStop(n))

----------------------------------------------------------------------------
(* SpecFn: the numeric functions applied to one argument *)

RunIdle == /\ pc = "idle"
           /\ expected = <<>>
           /\ tests = <<>>
           /\ idx = 0
           /\ tests_passed = 0
           /\ tests_failed = 0
           /\ out = <<>>
           /\ success = PyNone
           /\ exit_code = PyNone

FnIdle == /\ arg = 0
          /\ fib_out = PyNone
          /\ prime_out = PyNone

FibIdle == /\ fn = 0
           /\ stack = <<>>
           /\ fret = 0
           /\ fstatus = "idle"

InitFn == /\ RunIdle
          /\ FibIdle
          /\ arg \in (-NegMax)..PrimeMax
          /\ fib_out = PyNone
          /\ prime_out = PyNone

CallFibonacci == /\ fib_out = PyNone
                 /\ arg <= FibMax
                 /\ fib_out' = PyInt(fibonacci(arg))
                 /\ UNCHANGED <<arg, prime_out>>
                 /\ UNCHANGED <<runVars, fibVars>>

CallIsPrime == /\ prime_out = PyNone
               /\ prime_out' = PyBool(is_prime(arg))
               /\ UNCHANGED <<arg, fib_out>>
               /\ UNCHANGED <<runVars, fibVars>>

NextFn == CallFibonacci \/ CallIsPrime

SpecFn == InitFn /\ [][NextFn]_vars

----------------------------------------------------------------------------
(* The script: __main__ calls run_tests and exits with its verdict *)

\* the number of entries of the table literal
NumTests == 8

\* the expected values as the source gives them
GivenExpected == <<PyInt(0), PyInt(1), PyInt(5), PyInt(13),
                   PyBool(TRUE), PyBool(TRUE), PyBool(FALSE), PyBool(FALSE)>>

Message == <<"fibonacci(0) should be 0", "fibonacci(1) should be 1",
             "fibonacci(5) should be 5", "fibonacci(7) should be 13",
             "is_prime(2) should be True", "is_prime(17) should be True",
             "is_prime(4) should be False", "is_prime(1) should be False">>

\* the first element of each tuple, evaluated while the list is built
Actual == <<PyInt(fibonacci(0)), PyInt(fibonacci(1)), PyInt(fibonacci(5)),
            PyInt(fibonacci(7)), PyBool(is_prime(2)), PyBool(is_prime(17)),
            PyBool(is_prime(4)), PyBool(is_prime(1))>>

\* the list of (actual, expected, message) tuples for an expected-value column e
BuildTests(e) == [k \in 1..NumTests |->
                    [actual |-> Actual[k], expected |-> e[k], message |-> Message[k]]]

Line(mark, text) == [mark |-> mark, text |-> text]

HeaderLine == Line("", "Running Python tests...\n")

\* line 43
PassLine(c) == Line("ok", c.message)

\* a slip: the two values in each other's place
FailLineSwapped(c) == Line("fail", c.message \o " - Expected " \o PyStr(c.actual)
                                            \o ", got " \o PyStr(c.expected))

\* line 46
FailLine(c) == Line("fail", c.message \o " - Expected " \o PyStr(c.expected)
                                     \o ", got " \o PyStr(c.actual))

Separator == Line("", "\n========================================")

\* lines 49-53
SummaryBlock(p, f) == <<Separator,
                        Line("", "Total: " \o DecStr(p + f) \o " tests"),
                        Line("", "Passed: " \o DecStr(p)),
                        Line("", "Failed: " \o DecStr(f)),
                        Line("", "========================================")>>

\* a slip: success decided by the passed counter
ReturnValueAnyPassed(p, f) == p > 0

\* line 55
ReturnValue(p, f) == f = 0

\* a slip: the two statuses in each other's place
ExitStatusInverted(s) == IF s.v # 0 THEN 1 ELSE 0

\* line 60: 0 if success else 1
ExitStatus(s) == IF s.v # 0 THEN 0 ELSE 1

\* the expected-value columns the runner is tried on: any subset of the
\* positions changed to one of two values, or one position changed to any
\* corrupted value
Keep == [t |-> "keep", v |-> 0]
SmallCorrupt == {PyInt(0), PyBool(TRUE)}
Corrupt == {PyInt(n) : n \in (-1)..MaxCorrupt} \cup {PyBool(TRUE), PyBool(FALSE)}
MultiTables == {[k \in 1..NumTests |-> IF f[k] = Keep THEN GivenExpected[k] ELSE f[k]] :
                  f \in [1..NumTests -> SmallCorrupt \cup {Keep}]}
SingleTables == {[k \in 1..NumTests |-> IF k = j THEN c ELSE GivenExpected[k]] :
                   j \in 1..NumTests, c \in Corrupt}

Init == /\ FnIdle
        /\ FibIdle
        /\ pc = "main"
        /\ expected \in MultiTables \cup SingleTables
        /\ tests = <<>>
        /\ idx = 0
        /\ tests_passed = 0
        /\ tests_failed = 0
        /\ out = <<>>
        /\ success = PyNone
        /\ exit_code = PyNone

\* line 59 enters run_tests; lines 24-39
Begin == /\ pc = "main"
         /\ tests_passed' = 0
         /\ tests_failed' = 0
         /\ out' = Append(out, HeaderLine)
         /\ tests' = BuildTests(expected)
         /\ idx' = 0
         /\ pc' = "loop"
         /\ UNCHANGED <<expected, success, exit_code>>
         /\ UNCHANGED <<fnVars, fibVars>>

\* a slip: tests_passed = 1 in place of tests_passed += 1
CasePassAssigns == /\ pc = "loop"
                   /\ idx < Len(tests)
                   /\ PyEq(tests[idx + 1].actual, tests[idx + 1].expected)
                   /\ out' = Append(out, PassLine(tests[idx + 1]))
                   /\ tests_passed' = 1
                   /\ idx' = idx + 1
                   /\ UNCHANGED <<pc, expected, tests, tests_failed, success, exit_code>>
                   /\ UNCHANGED <<fnVars, fibVars>>

\* lines 41-44: the next case matches
CasePass == /\ pc = "loop"
            /\ idx < Len(tests)
            /\ PyEq(tests[idx + 1].actual, tests[idx + 1].expected)
            /\ out' = Append(out, PassLine(tests[idx + 1]))
            /\ tests_passed' = tests_passed + 1
            /\ idx' = idx + 1
            /\ UNCHANGED <<pc, expected, tests, tests_failed, success, exit_code>>
            /\ UNCHANGED <<fnVars, fibVars>>

\* a slip: a mismatch ending the process at once, as a failed assert would
CaseFailAborts == /\ pc = "loop"
                  /\ idx < Len(tests)
                  /\ ~PyEq(tests[idx + 1].actual, tests[idx + 1].expected)
                  /\ out' = Append(out, FailLine(tests[idx + 1]))
                  /\ tests_failed' = tests_failed + 1
                  /\ idx' = idx + 1
                  /\ exit_code' = PyInt(1)
                  /\ pc' = "exited"
                  /\ UNCHANGED <<expected, tests, tests_passed, success>>
                  /\ UNCHANGED <<fnVars, fibVars>>

\* lines 41-42, 45-47: the next case does not match
CaseFail == /\ pc = "loop"
            /\ idx < Len(tests)
            /\ ~PyEq(tests[idx + 1].actual, tests[idx + 1].expected)
            /\ out' = Append(out, FailLine(tests[idx + 1]))
            /\ tests_failed' = tests_failed + 1
            /\ idx' = idx + 1
            /\ UNCHANGED <<pc, expected, tests, tests_passed, success, exit_code>>
            /\ UNCHANGED <<fnVars, fibVars>>

\* the loop is exhausted; lines 49-55, and the assignment of line 59
Summarize == /\ pc = "loop"
             /\ idx = Len(tests)
             /\ out' = out \o SummaryBlock(tests_passed, tests_failed)
             /\ success' = PyBool(ReturnValue(tests_passed, tests_failed))
             /\ pc' = "returned"
             /\ UNCHANGED <<expected, tests, idx, tests_passed, tests_failed, exit_code>>
             /\ UNCHANGED <<fnVars, fibVars>>

\* line 60
Exit == /\ pc = "returned"
        /\ exit_code' = PyInt(ExitStatus(success))
        /\ pc' = "exited"
        /\ UNCHANGED <<expected, tests, idx, tests_passed, tests_failed, out, success>>
        /\ UNCHANGED <<fnVars, fibVars>>

Next == Begin \/ CasePass \/ CaseFail \/ Summarize \/ Exit

Spec == Init /\ [][Next]_vars

\* the interpreter runs the script to its end: no step waits on anything
LiveSpec == Init /\ [][Next]_vars /\ WF_vars(Next)

----------------------------------------------------------------------------
(* SpecFib: one evaluation of fibonacci(fn), frame by frame.  A frame is   *)
(* at "start" (line 6), at "first" (waiting for fibonacci(n-1), line 11)   *)
(* or at "second" (waiting for fibonacci(n-2), holding the first value).   *)

\* sys.getrecursionlimit() of the interpreter, which the script never changes
RecursionLimit == 1000

Frame(n) == [n |-> n, at |-> "start", a |-> 0]

Top == stack[Len(stack)]

Pop == SubSeq(stack, 1, Len(stack) - 1)

\* a slip: fibonacci(n) in place of fibonacci(n-2)
SecondArgSame(n) == n

\* the arguments of the two recursive calls of line 11
FirstArg(n) == n - 1
SecondArg(n) == n - 2

\* a call from a frame is made only while the interpreter's frame count, the
\* module's frame and the fibonacci frames, stays within the recursion limit
CanCall == Len(stack) + 1 < RecursionLimit

\* small arguments, evaluated to the end, and one argument as large as the limit
FibInputs == ((-NegMax)..FibMax) \cup {RecursionLimit}

InitFib == /\ RunIdle
           /\ FnIdle
           /\ fn \in FibInputs
           /\ stack = <<Frame(fn)>>
           /\ fret = 0
           /\ fstatus = "running"

\* a frame hands v back to its caller
Return(v) == /\ fret' = v
             /\ stack' = Pop
             /\ fstatus' = IF Len(stack) = 1 THEN "returned" ELSE "returning"
             /\ UNCHANGED fn

\* lines 6-7
FibBaseZero == /\ fstatus = "running"
               /\ Top.at = "start"
               /\ Top.n <= 0
               /\ Return(0)
               /\ UNCHANGED <<runVars, fnVars>>

\* lines 8-9
FibBaseOne == /\ fstatus = "running"
              /\ Top.at = "start"
              /\ Top.n = 1
              /\ Return(1)
              /\ UNCHANGED <<runVars, fnVars>>

\* line 11: the call fibonacci(n-1)
FibCallFirst == /\ fstatus = "running"
                /\ Top.at = "start"
                /\ Top.n > 1
                /\ CanCall
                /\ stack' = Append([stack EXCEPT ![Len(stack)].at = "first"],
                                   Frame(FirstArg(Top.n)))
                /\ UNCHANGED <<fn, fret, fstatus>>
                /\ UNCHANGED <<runVars, fnVars>>

\* line 11: fibonacci(n-1) has returned; the call fibonacci(n-2)
FibCallSecond == /\ fstatus = "returning"
                 /\ Top.at = "first"
                 /\ CanCall
                 /\ stack' = Append([stack EXCEPT ![Len(stack)].at = "second",
                                                  ![Len(stack)].a = fret],
                                    Frame(SecondArg(Top.n)))
                 /\ fstatus' = "running"
                 /\ UNCHANGED <<fn, fret>>
                 /\ UNCHANGED <<runVars, fnVars>>

\* line 11: fibonacci(n-2) has returned; the sum is returned
FibAdd == /\ fstatus = "returning"
          /\ Top.at = "second"
          /\ Return(Top.a + fret)
          /\ UNCHANGED <<runVars, fnVars>>

\* line 11: a call beyond the recursion limit raises RecursionError, which
\* nothing catches
FibRaise == /\ \/ fstatus = "running" /\ Top.at = "start" /\ Top.n > 1
               \/ fstatus = "returning" /\ Top.at = "first"
            /\ ~CanCall
            /\ fstatus' = "raised"
            /\ UNCHANGED <<fn, stack, fret>>
            /\ UNCHANGED <<runVars, fnVars>>

NextFib == FibBaseZero \/ FibBaseOne \/ FibCallFirst \/ FibCallSecond \/ FibAdd \/ FibRaise

\* the interpreter runs the call to its end
SpecFib == InitFib /\ [][NextFib]_vars /\ WF_vars(NextFib)

----------------------------------------------------------------------------
(* Reference definitions the properties are stated with *)

\* the sequence 0, 1, 1, 2, 3, 5, ... computed iteratively
RECURSIVE FibIter(_, _, _)
FibIter(k, a, b) == IF k = 0 THEN a ELSE FibIter(k - 1, b, a + b)
FibRef(n) == FibIter(n, 0, 1)

\* n is a prime number
IsPrimeRef(n) == n >= 2 /\ \A d \in 2..(n - 1) : n % d # 0

\* case k of the table matches under Python's ==
Matches(k) == tests[k].actual.v = tests[k].expected.v

Finished == pc \in {"returned", "exited"}

\* the positions of the printed lines carrying a given marker
Marked(m) == {k \in 1..Len(out) : out[k].mark = m}

\* exactly position j of the expected-value column differs from the source's
OnlyChanged(j) == /\ expected[j] # GivenExpected[j]
                  /\ \A k \in 1..NumTests : k # j => expected[k] = GivenExpected[k]

----------------------------------------------------------------------------
(* Properties of run_tests and __main__ *)

\* C1: run_tests returns True exactly when no case failed, that is exactly
\* when every case's actual value equals (Python ==) its expected value, and
\* False as soon as one case mismatches.
C1_ReturnsTrueIffNoMismatch ==
    Finished => /\ success.t = "bool"
                /\ (success = PyBool(TRUE)) <=> (tests_failed = 0)
                /\ (success = PyBool(TRUE)) <=> (\A k \in 1..NumTests : Matches(k))
                /\ (success = PyBool(FALSE)) <=> (\E k \in 1..NumTests : ~Matches(k))

C1_Witness == pc = "returned" /\ success = PyBool(FALSE) /\ tests_failed = 2

\* C2: a mismatch never aborts the run: whatever cases mismatch, every case
\* is evaluated, the run ends having counted all 8 cases, run_tests returns a
\* boolean, and the script always reaches its exit.
C2_EveryCaseEvaluated ==
    /\ [](Finished => /\ idx = NumTests
                      /\ tests_passed + tests_failed = NumTests
                      /\ Cardinality(Marked("ok") \cup Marked("fail")) = NumTests
                      /\ success.t = "bool")
    /\ [](pc \in {"main", "loop", "returned", "exited"})
    /\ <>(pc = "exited")

C2_Witness == pc = "exited" /\ tests_failed = NumTests /\ success = PyBool(FALSE)

\* C3: the process exits with status 0 when run_tests returned True and with
\* status 1 otherwise; the status is non-zero iff some case mismatched.
C3_ExitStatusReflectsResult ==
    pc = "exited" => /\ (success = PyBool(TRUE)) => exit_code = PyInt(0)
                     /\ (success # PyBool(TRUE)) => exit_code = PyInt(1)
                     /\ (exit_code.v # 0) <=> (\E k \in 1..NumTests : ~Matches(k))

C3_Witness == pc = "exited" /\ exit_code = PyInt(1) /\ tests_failed = 1

\* the summary reports p passed and f failed cases
Reports(p, f) == /\ Len(out) = NumTests + 6
                 /\ out[NumTests + 4].text = "Passed: " \o DecStr(p)
                 /\ out[NumTests + 5].text = "Failed: " \o DecStr(f)

\* C4 as stated: whenever exactly one expected value of the table is replaced
\* by a different value, the run reports Failed: 1, Passed: 7 and exits non-zero.
C4_AnyReplacementFailsOnce ==
    \A j \in 1..NumTests :
        (pc = "exited" /\ OnlyChanged(j)) =>
            /\ tests_failed = 1 /\ tests_passed = 7
            /\ Reports(7, 1)
            /\ exit_code.v # 0

\* C4 amended: whenever exactly one expected value of the table is replaced
\* by a value that Python's == tells apart from the original (bool and int
\* compare by number: True == 1, False == 0), the run reports Failed: 1,
\* Passed: 7 and exits non-zero.
C4_UnequalReplacementFailsOnce ==
    \A j \in 1..NumTests :
        (pc = "exited" /\ OnlyChanged(j) /\ expected[j].v # GivenExpected[j].v) =>
            /\ tests_failed = 1 /\ tests_passed = 7
            /\ Reports(7, 1)
            /\ exit_code.v # 0

C4_Witness == /\ pc = "exited"
              /\ OnlyChanged(3)
              /\ expected[3] = PyInt(6)
              /\ tests_failed = 1

\* C7: with the table as the source gives it, the run ends with Total 8,
\* Passed 8, Failed 0, run_tests returns True and the process exits with 0.
C7_GivenTablePasses ==
    (pc = "exited" /\ \A k \in 1..NumTests : expected[k] = GivenExpected[k]) =>
        /\ Len(out) = 14
        /\ out[11].text = "Total: 8 tests"
        /\ out[12].text = "Passed: 8"
        /\ out[13].text = "Failed: 0"
        /\ tests_passed = 8 /\ tests_failed = 0
        /\ success = PyBool(TRUE)
        /\ exit_code = PyInt(0)

C7_Witness == /\ pc = "exited"
              /\ \A k \in 1..NumTests : expected[k] = GivenExpected[k]
              /\ exit_code = PyInt(0)

\* the line the report must hold for case k
CaseText(k) == IF Matches(k) THEN tests[k].message
               ELSE tests[k].message \o " - Expected " \o PyStr(tests[k].expected)
                                     \o ", got " \o PyStr(tests[k].actual)

\* C9: the report holds one line per processed case, in table order, marked
\* as a success iff the case matches and as a failure, with the expected and
\* the actual value, otherwise; the summary block comes once, after the line
\* of the last case, and its Total is Passed + Failed.
C9_ReportInOrder ==
    /\ pc = "main" => out = <<>>
    /\ pc # "main" =>
        /\ Len(out) = 1 + idx + (IF Finished THEN 5 ELSE 0)
        /\ out[1].mark = ""
        /\ \A k \in 1..idx :
              /\ out[k + 1].mark = (IF Matches(k) THEN "ok" ELSE "fail")
              /\ out[k + 1].text = CaseText(k)
    /\ Finished =>
        /\ idx = NumTests
        /\ Marked("ok") \cup Marked("fail") = 2..(NumTests + 1)
        /\ out[NumTests + 3].text =
              "Total: " \o DecStr(Cardinality(Marked("ok")) + Cardinality(Marked("fail")))
                        \o " tests"
        /\ out[NumTests + 4].text = "Passed: " \o DecStr(Cardinality(Marked("ok")))
        /\ out[NumTests + 5].text = "Failed: " \o DecStr(Cardinality(Marked("fail")))

C9_Witness == pc = "exited" /\ Cardinality(Marked("fail")) = 3 /\ Len(out) = 14

\* C10: both counters are 0 when the loop starts and never decrease; after k
\* cases passed + failed = k; a case adds exactly 1 to exactly one counter;
\* no counter changes once the loop has completed.
C10_TallyConsistent ==
    /\ [](pc # "main" => tests_passed + tests_failed = idx)
    /\ []((pc = "loop" /\ idx = 0) => (tests_passed = 0 /\ tests_failed = 0))
    /\ [][/\ tests_passed' >= tests_passed
          /\ tests_failed' >= tests_failed
          /\ idx' = idx + 1 =>
                \/ tests_passed' = tests_passed + 1 /\ tests_failed' = tests_failed
                \/ tests_failed' = tests_failed + 1 /\ tests_passed' = tests_passed
          /\ Finished => (tests_passed' = tests_passed /\ tests_failed' = tests_failed)
         ]_vars

C10_Witness == pc = "returned" /\ tests_passed = 4 /\ tests_failed = 4

----------------------------------------------------------------------------
(* Properties of the numeric functions *)

\* C5: for n >= 0 fibonacci(n) is the n-th term of 0, 1, 1, 2, 3, 5, ...: it
\* satisfies fib(0)=0, fib(1)=1, fib(k)=fib(k-1)+fib(k-2), agrees with the
\* iterative computation, and gives 1, 5, 13, 55 at 1, 5, 7, 10.
C5_FibonacciIsTheSequence ==
    (fib_out # PyNone /\ arg >= 0) =>
        /\ fib_out = PyInt(FibRef(arg))
        /\ arg = 0 => fib_out.v = 0
        /\ arg = 1 => fib_out.v = 1
        /\ arg >= 2 => fib_out.v = FibRef(arg - 1) + FibRef(arg - 2)
        /\ arg = 5 => fib_out.v = 5
        /\ arg = 7 => fib_out.v = 13
        /\ arg = 10 => fib_out.v = 55

C5_Witness == arg = 10 /\ fib_out = PyInt(55)

\* C6: is_prime(n) is True iff n is prime: False for every n < 2, and for
\* n >= 2 True exactly when no integer d with 2 <= d and d*d <= n divides n.
C6_IsPrimeIsPrimality ==
    prime_out # PyNone =>
        /\ prime_out.t = "bool"
        /\ (prime_out = PyBool(TRUE)) <=> IsPrimeRef(arg)
        /\ arg < 2 => prime_out = PyBool(FALSE)
        /\ arg >= 2 => ((prime_out = PyBool(TRUE)) <=>
                           (\A d \in 2..arg : d * d <= arg => arg % d # 0))
        /\ arg \in {4, 9} => prime_out = PyBool(FALSE)
        /\ arg \in {2, 3, 17} => prime_out = PyBool(TRUE)

C6_Witness == arg = 9 /\ prime_out = PyBool(FALSE)

\* C8 as stated: fibonacci is total over all integers: no call ends in an
\* error, and a call with n <= 0 returns 0 without recursing.
C8_TotalOverAllIntegers ==
    /\ fstatus # "raised"
    /\ fn <= 0 => (Len(stack) <= 1 /\ (fstatus = "returned" => fret = 0))

\* C8 amended: a call with n <= 0 returns 0 without recursing; every recursive
\* call has a strictly smaller argument than its caller and the recursion is
\* never deeper than n frames, so fibonacci(n) returns its value whenever
\* those frames fit under the interpreter's recursion limit (n < 1000 for a
\* call from module level) and raises RecursionError for a larger n.
C8_TotalBelowRecursionLimit ==
    /\ [](fn <= 0 => (Len(stack) <= 1 /\ (fstatus = "returned" => fret = 0)))
    /\ [](\A i \in 2..Len(stack) : stack[i].n < stack[i - 1].n)
    /\ [](Len(stack) <= 1 \/ Len(stack) <= fn)
    /\ [](fstatus = "returned" => (stack = <<>> /\ fret = (IF fn <= 0 THEN 0 ELSE FibRef(fn))))
    /\ [](fstatus = "raised" => fn >= RecursionLimit)
    /\ <>(fstatus = (IF fn < RecursionLimit THEN "returned" ELSE "raised"))

C8_Witness == fstatus = "returned" /\ fn = 10 /\ fret = 55

====
